---------------------------- MODULE Spec2Model ----------------------------
(***************************************************************************)
(* marshmallow-jsonschema: JSONSchema.dump(schema) translates the fields   *)
(* of a marshmallow schema into a JSON Schema document                     *)
(* (src/marshmallow_jsonschema/base.py).                                   *)
(*                                                                         *)
(* Encoding of Python values:                                              *)
(*   str            a sequence of character codes (1..): "a" is <<1>>      *)
(*   None, missing  sentinels outside the character range                  *)
(*   dict           a function whose DOMAIN is the set of its keys, or,    *)
(*                  where insertion order matters (obj.fields, mapping,    *)
(*                  properties), a sequence of <<key, value>> items        *)
(*   the JSON value of the key 'type' is tagged: JStr("object") for a      *)
(*   string, JList(<<"array", "null">>) for a list                         *)
(*   a dict object that outlives a call (the dict a field's                *)
(*   _jsonschema_type_mapping hands out) lives in `heap` and is held by    *)
(*   reference, [ref |-> id]                                               *)
(***************************************************************************)
EXTENDS Integers, Sequences, FiniteSets, TLC

VARIABLES
    heap,       \* id -> the dict objects owned by fields with a _jsonschema_type_mapping hook
    history     \* one entry per finished JSONSchema().dump(obj) call, oldest first

vars == <<heap, history>>

---------------------------------------------------------------------------
(* Bounds of the model *)

\* fields declared on one top-level schema
MaxFields == 2
\* dump calls in one behaviour of SpecSeq
MaxCalls == 3
\* nested dump calls the interpreter's stack allows before it raises RecursionError
StackLimit == 4

---------------------------------------------------------------------------
(* Python values *)

None == <<0>>
missing == <<0, 0>>
EmptyDict == [k \in {} |-> None]
NoData == [nodata |-> TRUE]

JStr(s) == [str |-> s]
JList(l) == [list |-> l]

\* bool(v) of a str-or-None value
Truthy(v) == v # None /\ v # <<>>

\* a < b for two str values (code-point lexicographic order)
RECURSIVE LexLess(_, _)
LexLess(a, b) ==
    IF b = <<>> THEN FALSE
    ELSE IF a = <<>> THEN TRUE
    ELSE IF Head(a) # Head(b) THEN Head(a) < Head(b)
    ELSE LexLess(Tail(a), Tail(b))

\* d.get(k, dflt)
Get(d, k, dflt) == IF k \in DOMAIN d THEN d[k] ELSE dflt

\* d[k] = v on a dict without insertion order
Put(d, k, v) == [x \in DOMAIN d \cup {k} |-> IF x = k THEN v ELSE d[x]]

\* k in d, d[k], d[k] = v on an insertion-ordered dict
DictHas(d, k) == \E i \in 1..Len(d) : d[i][1] = k
DictGet(d, k) == d[CHOOSE i \in 1..Len(d) : d[i][1] = k][2]
DictSet(d, k, v) ==
    IF DictHas(d, k)
    THEN [i \in 1..Len(d) |-> IF d[i][1] = k THEN <<k, v>> ELSE d[i]]
    ELSE Append(d, <<k, v>>)
DictKeys(d) == [i \in 1..Len(d) |-> d[i][1]]

\* sorted(items): ascending by key (keys of a dict are distinct, so the
\* values are never compared)
RECURSIVE Insert(_, _)
Insert(s, item) ==
    IF s = <<>> THEN <<item>>
    ELSE IF LexLess(item[1], Head(s)[1]) THEN <<item>> \o s
    ELSE <<Head(s)>> \o Insert(Tail(s), item)
RECURSIVE sorted(_)
sorted(items) ==
    IF items = <<>> THEN <<>>
    ELSE Insert(sorted(SubSeq(items, 1, Len(items) - 1)), items[Len(items)])

---------------------------------------------------------------------------
(* The tables *)

TYPE_MAP ==
    [ dict       |-> [type |-> JStr("object")],
      list       |-> [type |-> JStr("array")],
      time       |-> [type |-> JStr("string"), format |-> "time"],
      timedelta  |-> [type |-> JStr("string")],
      datetime   |-> [type |-> JStr("string"), format |-> "date-time"],
      date       |-> [type |-> JStr("string"), format |-> "date"],
      UUID       |-> [type |-> JStr("string"), format |-> "uuid"],
      text_type  |-> [type |-> JStr("string")],
      binary_type |-> [type |-> JStr("string")],
      Decimal    |-> [type |-> JStr("number"), format |-> "decimal"],
      set        |-> [type |-> JStr("array")],
      tuple      |-> [type |-> JStr("array")],
      float      |-> [type |-> JStr("number"), format |-> "float"],
      int        |-> [type |-> JStr("number"), format |-> "integer"],
      bool       |-> [type |-> JStr("boolean")] ]

\* obj.TYPE_MAPPING of the host framework (python type -> field class), in
\* the order of its dict; a schema class may replace it
DefaultTypeMapping ==
    << <<"text_type", "String">>, <<"binary_type", "String">>,
       <<"datetime", "DateTime">>, <<"float", "Float">>, <<"bool", "Boolean">>,
       <<"tuple", "Raw">>, <<"list", "Raw">>, <<"set", "Raw">>,
       <<"int", "Integer">>, <<"UUID", "UUID">>, <<"time", "Time">>,
       <<"date", "Date">>, <<"timedelta", "TimeDelta">>,
       <<"Decimal", "Decimal">> >>

\* a schema class that sets TYPE_MAPPING itself: dict attributes go to a
\* Nested field, and a python type TYPE_MAP does not know goes to a field
\* class of the application
CustomTypeMapping ==
    DefaultTypeMapping \o << <<"dict", "Nested">>, <<"Address", "AddressField">> >>

TypeMappings == [default |-> DefaultTypeMapping, custom |-> CustomTypeMapping]

\* {v: k for k, v in obj.TYPE_MAPPING.items()}
RECURSIVE Invert(_)
Invert(items) ==
    IF items = <<>> THEN <<>>
    ELSE LET it == items[Len(items)]
         IN DictSet(Invert(SubSeq(items, 1, Len(items) - 1)), it[2], it[1])

\* lines 84-89: the field class -> python type association
Mapping(obj) ==
    LET m0 == Invert(TypeMappings[obj.TYPE_MAPPING])
        m1 == DictSet(m0, "Email", "text_type")
        m2 == DictSet(m1, "Dict", "dict")
        m3 == DictSet(m2, "List", "list")
        m4 == DictSet(m3, "Url", "text_type")
    IN DictSet(m4, "LocalDateTime", "datetime")

\* the validator classes FIELD_VALIDATORS knows
FIELD_VALIDATORS == {"Length", "OneOf", "Range"}

\* isinstance(field, fields.Nested)
IsNested(field) == field.cls \in {"Nested", "HookNested"}


---------------------------------------------------------------------------
(* Dict objects and references *)

\* the dict a `schema` variable holds: itself, or the heap object it names
Deref(schema, h) == IF "ref" \in DOMAIN schema THEN h[schema.ref] ELSE schema

\* schema[k] = v: writes into the object `schema` names
SetItem(schema, k, v, h) ==
    IF "ref" \in DOMAIN schema
    THEN [schema |-> schema, heap |-> [h EXCEPT ![schema.ref] = Put(h[schema.ref], k, v)]]
    ELSE [schema |-> Put(schema, k, v), heap |-> h]

\* a document as a reader sees it: every reference replaced by the object
RECURSIVE DerefValue(_, _)
DerefValue(v, h) ==
    IF "ref" \in DOMAIN v THEN h[v.ref]
    ELSE IF "properties" \in DOMAIN v
    THEN LET ps == v.properties
         IN [v EXCEPT !.properties =
                [i \in 1..Len(ps) |-> <<ps[i][1], DerefValue(ps[i][2], h)>>]]
    ELSE IF "items" \in DOMAIN v
    THEN LET it == v.items IN [v EXCEPT !.items = DerefValue(it, h)]
    ELSE v

\* the literal dict each hook was written with
HookFragment ==
    << [type |-> JStr("string")],
       [type |-> JStr("string"), title |-> <<9>>] >>

\* field._jsonschema_type_mapping(): a hook either builds its dict anew on
\* every call or hands out the one dict object it keeps
_jsonschema_type_mapping(field) ==
    IF field.hookFresh THEN HookFragment[field.hookObj] ELSE [ref |-> field.hookObj]

---------------------------------------------------------------------------
(* Constraint translators (validation.py) *)

IsArrayType(schema) ==
    /\ "type" \in DOMAIN schema
    /\ \/ schema.type = JStr("array")
       \/ /\ "list" \in DOMAIN schema.type
          /\ Len(schema.type.list) > 0
          /\ schema.type.list[1] = "array"

handle_length(schema, field, validator) ==
    LET minKey == IF IsArrayType(schema) THEN "minItems" ELSE "minLength"
        maxKey == IF IsArrayType(schema) THEN "maxItems" ELSE "maxLength"
        s1 == IF "min" \in DOMAIN validator THEN Put(schema, minKey, validator.min) ELSE schema
        s2 == IF "max" \in DOMAIN validator THEN Put(s1, maxKey, validator.max) ELSE s1
    IN IF "equal" \in DOMAIN validator
       THEN Put(Put(s2, minKey, validator.equal), maxKey, validator.equal)
       ELSE s2

handle_range(schema, field, validator) ==
    LET s1 == IF "min" \in DOMAIN validator
              THEN Put(schema,
                       IF validator.min_exclusive THEN "exclusiveMinimum" ELSE "minimum",
                       validator.min)
              ELSE schema
    IN IF "max" \in DOMAIN validator
       THEN Put(s1,
                IF validator.max_exclusive THEN "exclusiveMaximum" ELSE "maximum",
                validator.max)
       ELSE s1

handle_one_of(schema, field, validator) ==
    Put(schema, "enum", validator.choices)

\* FIELD_VALIDATORS[validator.__class__](schema, field, validator, obj)
CallValidator(schema, field, validator) ==
    IF validator.cls = "Length" THEN handle_length(schema, field, validator)
    ELSE IF validator.cls = "Range" THEN handle_range(schema, field, validator)
    ELSE handle_one_of(schema, field, validator)

\* lines 104-108: each translator returns the updated fragment, which
\* `schema` then names
RECURSIVE ApplyValidators(_, _, _, _)
ApplyValidators(schema, field, i, h) ==
    IF i > Len(field.validators) THEN schema
    ELSE LET validator == field.validators[i]
         IN IF validator.cls \in FIELD_VALIDATORS
            THEN ApplyValidators(CallValidator(Deref(schema, h), field, validator),
                                 field, i + 1, h)
            ELSE ApplyValidators(schema, field, i + 1, h)

---------------------------------------------------------------------------
(* The schemas handed to dump: fields as the host framework binds them *)

\* a bound field: name is the key it is declared under
Field(name, cls) ==
    [name |-> name, attribute |-> None, cls |-> cls, required |-> FALSE,
     default |-> missing, validators |-> <<>>, metadata |-> EmptyDict,
     nested |-> "", many |-> FALSE,
     hook |-> FALSE, hookObj |-> 1, hookFresh |-> TRUE]

\* a schema object: its TYPE_MAPPING and obj.fields.items() in declaration order
Schema(tm, fs) ==
    [TYPE_MAPPING |-> tm, fields |-> [i \in 1..Len(fs) |-> <<fs[i].name, fs[i]>>]]

NestedField(name, target, many, required) ==
    [Field(name, "Nested") EXCEPT !.nested = target, !.many = many, !.required = required]

HookField(name, cls, obj, fresh) ==
    [Field(name, cls) EXCEPT !.hook = TRUE, !.hookObj = obj, !.hookFresh = fresh]

\* the schema classes Nested fields refer to
Registry ==
    [ Leaf |-> Schema("default",
                      << Field(<<2>>, "String"),
                         [Field(<<1>>, "Integer") EXCEPT !.required = TRUE] >>),
      Bad  |-> Schema("default",
                      << Field(<<1>>, "Integer"), Field(<<2>>, "Function") >>),
      Loop |-> Schema("default", << NestedField(<<1>>, "Loop", FALSE, FALSE) >>),
      Mid  |-> Schema("default", << NestedField(<<1>>, "Leaf", TRUE, TRUE) >>) ]

\* what a Nested field may be given: a class of the registry, or the name 'self'
NestedTargets == DOMAIN Registry \cup {"self"}

Names == {<<1>>, <<1, 2>>, <<2>>}

MappedClasses ==
    {"String", "DateTime", "Float", "Boolean", "Raw", "Integer", "UUID", "Time",
     "Date", "TimeDelta", "Decimal", "Email", "Dict", "List", "Url", "LocalDateTime"}

\* validators
OneOf == [cls |-> "OneOf", choices |-> << <<1>>, <<2>> >>]
LengthMax == [cls |-> "Length", max |-> 5]
LengthMinMax == [cls |-> "Length", min |-> 2, max |-> 10]
RangeMin == [cls |-> "Range", min |-> 1, min_exclusive |-> FALSE, max_exclusive |-> FALSE]
Regexp == [cls |-> "Regexp"]
ValidatorLists ==
    { <<>>, <<OneOf>>, <<LengthMax>>, <<RangeMin>>, <<Regexp>>, <<LengthMinMax, OneOf>> }

\* field.metadata: the keyword arguments title, description and metadata,
\* each given or not
Absent == <<0, 0, 0>>
MetaDict(t, d, sub) ==
    LET keys == (IF t # Absent THEN {"title"} ELSE {})
                \cup (IF d # Absent THEN {"description"} ELSE {})
    IN [k \in keys |-> IF k = "title" THEN t ELSE d]
SubDicts == { MetaDict(t, d, Absent) : t \in {Absent, <<>>, <<8>>}, d \in {Absent, <<6>>} }
Metadatas ==
    { MetaDict(t, d, Absent) : t \in {Absent, <<>>, <<7>>}, d \in {Absent, <<5>>} }
    \cup { Put(MetaDict(t, d, Absent), "metadata", sub) :
              t \in {Absent, <<>>, <<7>>}, d \in {Absent, <<5>>}, sub \in SubDicts }

\* fields that go through the type table
TableFields ==
    { [Field(<<1>>, c) EXCEPT !.attribute = a, !.default = d, !.required = r] :
        c \in MappedClasses, a \in {None, <<>>, <<3>>},
        d \in {missing, <<>>, <<5>>}, r \in BOOLEAN }

\* fields with title/description metadata
MetaBases ==
    { [Field(<<1>>, "Integer") EXCEPT !.attribute = <<3>>],
      HookField(<<1>>, "Colour", 1, FALSE),
      HookField(<<1>>, "Colour", 2, FALSE),
      HookField(<<1>>, "Colour", 2, TRUE),
      NestedField(<<1>>, "Leaf", FALSE, FALSE) }
MetaFields ==
    { [t EXCEPT !.metadata = m, !.validators = v] :
        t \in MetaBases, m \in Metadatas, v \in {<<>>, <<OneOf>>} }

NestedFields ==
    { NestedField(<<1>>, n, m, r) : n \in NestedTargets, m \in BOOLEAN, r \in BOOLEAN }

\* fields with a hook whose class is a Nested subclass, an unmapped class or
\* a mapped class
HookFields ==
    { [HookField(<<1>>, c, 1, fr) EXCEPT !.nested = n, !.many = m] :
        c \in {"HookNested"}, fr \in BOOLEAN, n \in {"Leaf", "Bad", "Loop"}, m \in BOOLEAN }
    \cup { HookField(<<1>>, c, 1, fr) : c \in {"Function", "String"}, fr \in BOOLEAN }

UnsupportedFields ==
    { [Field(<<1>>, c) EXCEPT !.required = r] :
        c \in {"Function", "AddressField"}, r \in BOOLEAN }

ValidatorFields ==
    { [t EXCEPT !.validators = v] :
        t \in { Field(<<1>>, "String"), Field(<<1>>, "List"), Field(<<1>>, "Integer"),
                HookField(<<1>>, "Colour", 1, FALSE),
                NestedField(<<1>>, "Leaf", TRUE, FALSE) },
        v \in ValidatorLists }

Fields ==
    TableFields \cup MetaFields \cup NestedFields \cup HookFields
    \cup UnsupportedFields \cup ValidatorFields

\* fields that schemas of several fields are made of
CoreFields ==
    { [Field(<<1>>, "Integer") EXCEPT !.required = TRUE],
      [Field(<<1>>, "String") EXCEPT !.attribute = <<2>>],
      [Field(<<1>>, "String") EXCEPT !.attribute = <<2>>, !.required = TRUE],
      Field(<<1>>, "Function"),
      NestedField(<<1>>, "Leaf", TRUE, TRUE),
      NestedField(<<1>>, "Loop", FALSE, FALSE),
      NestedField(<<1>>, "self", FALSE, TRUE),
      HookField(<<1>>, "Colour", 1, FALSE),
      [HookField(<<1>>, "Colour", 1, FALSE) EXCEPT !.metadata = [title |-> <<7>>]],
      [HookField(<<1>>, "Colour", 1, FALSE) EXCEPT
          !.metadata = [title |-> <<8>>], !.required = TRUE],
      [HookField(<<1>>, "HookNested", 1, TRUE) EXCEPT !.nested = "Bad"] }

Named(t, n) == [t EXCEPT !.name = n]

\* declarations of n core fields under distinct names
Declarations(n) ==
    { [i \in 1..n |-> Named(d[i][1], d[i][2])] :
        d \in { e \in [1..n -> CoreFields \X Names] :
                  \A i \in 1..n : \A j \in 1..n : i # j => e[i][2] # e[j][2] } }

Schemas ==
    { Schema(tm, <<f>>) : tm \in DOMAIN TypeMappings, f \in Fields }
    \cup UNION { { Schema(tm, fs) : tm \in DOMAIN TypeMappings, fs \in Declarations(n) } :
                   n \in 2..MaxFields }

---------------------------------------------------------------------------
(* JSONSchema *)

\* the outcome of a call: kind is "ok" or the exception raised; branch is
\* the arm of the if/elif chain that produced a field's starting fragment
Outcome(kind, data, field, h, log, branch) ==
    [kind |-> kind, data |-> data, field |-> field, heap |-> h, log |-> log,
     branch |-> branch]

Raise(kind, field, h) == Outcome(kind, NoData, field, h, <<>>, "")

\* mutant: the title is always the field's name (the attribute is ignored)
_from_python_type_name_only(field, pytype) ==
    LET with_entry == [k \in {"title"} \cup DOMAIN TYPE_MAP[pytype] |->
                          IF k \in DOMAIN TYPE_MAP[pytype] THEN TYPE_MAP[pytype][k]
                          ELSE field.name]
    IN IF field.default # missing
       THEN Put(with_entry, "default", field.default)
       ELSE with_entry

_from_python_type(field, pytype) ==
    LET title == IF Truthy(field.attribute) THEN field.attribute ELSE field.name
        json_schema == [title |-> title]
        entry == TYPE_MAP[pytype]
        with_entry == [k \in DOMAIN json_schema \cup DOMAIN entry |->
                          IF k \in DOMAIN entry THEN entry[k] ELSE json_schema[k]]
    IN IF field.default # missing
       THEN Put(with_entry, "default", field.default)
       ELSE with_entry

\* mutant: the metadata sub-mapping is preferred to the direct keyword
apply_metadata_sub_first(field, schema, h) ==
    LET metadata == Get(field.metadata, "metadata", EmptyDict)
        title == Get(metadata, "title", Get(field.metadata, "title", None))
        description == Get(metadata, "description",
                           Get(field.metadata, "description", None))
        s1 == IF Truthy(title)
              THEN SetItem(schema, "title", title, h)
              ELSE [schema |-> schema, heap |-> h]
    IN IF Truthy(description)
       THEN SetItem(s1.schema, "description", description, s1.heap)
       ELSE s1

apply_metadata(field, schema, h) ==
    LET metadata == Get(field.metadata, "metadata", EmptyDict)
        title == Get(field.metadata, "title", Get(metadata, "title", None))
        description == Get(field.metadata, "description",
                           Get(metadata, "description", None))
        s1 == IF Truthy(title)
              THEN SetItem(schema, "title", title, h)
              ELSE [schema |-> schema, heap |-> h]
    IN IF Truthy(description)
       THEN SetItem(s1.schema, "description", description, s1.heap)
       ELSE s1

\* mutant: the test of field.required is missing
get_required_all(obj) ==
    LET items == sorted(obj.fields)
    IN [i \in 1..Len(items) |-> items[i][2].name]

\* get_required: the names of the required fields, in sorted order
get_required(obj) ==
    LET items == sorted(obj.fields)
        required == SelectSeq(items, LAMBDA item : item[2].required)
    IN [i \in 1..Len(required) |-> required[i][2].name]

RECURSIVE dump(_, _, _)
RECURSIVE _from_nested_schema(_, _, _)
RECURSIVE StartingSchema(_, _, _, _)
RECURSIVE PropertiesLoop(_, _, _, _, _, _, _)
RECURSIVE LoopStarted(_, _, _, _, _, _, _)
RECURSIVE LoopFinished(_, _, _, _, _, _, _, _)
RECURSIVE get_properties(_, _, _)

\* mutant: the two type lists are swapped
WrapMany_swapped(field, r) ==
    IF r.kind = "ok" /\ field.many
    THEN [r EXCEPT !.data =
             [type |-> JList(IF field.required
                             THEN <<"array", "null">>
                             ELSE <<"array">>),
              items |-> @]]
    ELSE r

\* lines 144-150: the wrapper of a many field around the nested document
WrapMany(field, r) ==
    IF r.kind = "ok" /\ field.many
    THEN [r EXCEPT !.data =
             [type |-> JList(IF field.required
                             THEN <<"array">>
                             ELSE <<"array", "null">>),
              items |-> @]]
    ELSE r

\* _from_nested_schema: cls().dump(field.nested()).data, wrapped for many.
\* field.nested() calls what the field was given: a schema class of the
\* registry, or (a name such as 'self') a str, which is not callable
_from_nested_schema(field, h, depth) ==
    IF field.nested \notin DOMAIN Registry THEN Raise("TypeError", field, h)
    ELSE IF depth >= StackLimit THEN Raise("RecursionError", field, h)
    ELSE WrapMany(field, dump(Registry[field.nested], h, depth + 1))

\* mutant: a field of an unsupported class is given a bare fragment
StartingSchema_lenient(field, mapping, h, depth) ==
    IF field.hook
    THEN Outcome("ok", _jsonschema_type_mapping(field), NoData, h, <<>>, "hook")
    ELSE IF DictHas(mapping, field.cls)
    THEN IF DictGet(mapping, field.cls) \notin DOMAIN TYPE_MAP
         THEN Outcome("KeyError", NoData, field, h, <<>>, "table")
         ELSE Outcome("ok", _from_python_type(field, DictGet(mapping, field.cls)),
                      NoData, h, <<>>, "table")
    ELSE IF IsNested(field)
    THEN [_from_nested_schema(field, h, depth) EXCEPT !.branch = "nested"]
    ELSE Outcome("ok", [title |-> field.name], NoData, h, <<>>, "none")

\* mutant: the hook is looked for after the class table and Nested
StartingSchema_hook_last(field, mapping, h, depth) ==
    IF DictHas(mapping, field.cls)
    THEN IF DictGet(mapping, field.cls) \notin DOMAIN TYPE_MAP
         THEN Outcome("KeyError", NoData, field, h, <<>>, "table")
         ELSE Outcome("ok", _from_python_type(field, DictGet(mapping, field.cls)),
                      NoData, h, <<>>, "table")
    ELSE IF IsNested(field)
    THEN [_from_nested_schema(field, h, depth) EXCEPT !.branch = "nested"]
    ELSE IF field.hook
    THEN Outcome("ok", _jsonschema_type_mapping(field), NoData, h, <<>>, "hook")
    ELSE Outcome("ValueError", NoData, field, h, <<>>, "none")

\* lines 93-101: the if/elif chain that picks the starting fragment
StartingSchema(field, mapping, h, depth) ==
    IF field.hook
    THEN Outcome("ok", _jsonschema_type_mapping(field), NoData, h, <<>>, "hook")
    ELSE IF DictHas(mapping, field.cls)
    THEN IF DictGet(mapping, field.cls) \notin DOMAIN TYPE_MAP
         THEN Outcome("KeyError", NoData, field, h, <<>>, "table")
         ELSE Outcome("ok", _from_python_type(field, DictGet(mapping, field.cls)),
                      NoData, h, <<>>, "table")
    ELSE IF IsNested(field)
    THEN [_from_nested_schema(field, h, depth) EXCEPT !.branch = "nested"]
    ELSE Outcome("ValueError", NoData, field, h, <<>>, "none")

\* lines 92-113: the loop over sorted(obj.fields.items()), from item i on
PropertiesLoop(items, i, properties, mapping, h, log, depth) ==
    IF i > Len(items)
    THEN Outcome("ok", properties, NoData, h, log, "")
    ELSE LoopStarted(items, i, properties, mapping, log, depth,
                     StartingSchema(items[i][2], mapping, h, depth))

\* lines 103-111: an exception leaves the loop; else the validators and
\* the metadata are applied to the starting fragment
LoopStarted(items, i, properties, mapping, log, depth, start) ==
    IF start.kind # "ok"
    THEN [start EXCEPT !.data = NoData, !.log = log]
    ELSE LoopFinished(items, i, properties, mapping, log, depth, start,
                      apply_metadata(items[i][2],
                                     ApplyValidators(start.data, items[i][2], 1, start.heap),
                                     start.heap))

\* mutant: the fragment is stored under the attribute when there is one
LoopFinished_by_attribute(items, i, properties, mapping, log, depth, start, done) ==
    PropertiesLoop(items, i + 1,
                   DictSet(properties,
                           IF Truthy(items[i][2].attribute)
                           THEN items[i][2].attribute ELSE items[i][2].name,
                           done.schema),
                   mapping, done.heap,
                   Append(log, [field |-> items[i][2],
                                branch |-> start.branch,
                                start |-> DerefValue(start.data, start.heap),
                                validated |-> DerefValue(
                                    ApplyValidators(start.data, items[i][2], 1, start.heap),
                                    start.heap),
                                final |-> DerefValue(done.schema, done.heap)]),
                   depth)

\* line 113: properties[field.name] = schema, and the next item
LoopFinished(items, i, properties, mapping, log, depth, start, done) ==
    PropertiesLoop(items, i + 1,
                   DictSet(properties, items[i][2].name, done.schema),
                   mapping, done.heap,
                   Append(log, [field |-> items[i][2],
                                branch |-> start.branch,
                                start |-> DerefValue(start.data, start.heap),
                                validated |-> DerefValue(
                                    ApplyValidators(start.data, items[i][2], 1, start.heap),
                                    start.heap),
                                final |-> DerefValue(done.schema, done.heap)]),
                   depth)

get_properties(obj, h, depth) ==
    PropertiesLoop(sorted(obj.fields), 1, <<>>, Mapping(obj), h, <<>>, depth)

\* the document of a dump whose get_properties returned
Document(obj, p) ==
    IF p.kind # "ok" THEN p
    ELSE [p EXCEPT !.data = [type |-> JStr("object"),
                             properties |-> @,
                             required |-> get_required(obj)]]

\* JSONSchema().dump(obj): the Method fields properties and required and
\* the Constant field type; an exception of get_properties leaves the call
dump(obj, h, depth) == Document(obj, get_properties(obj, h, depth))

---------------------------------------------------------------------------
(* The state machine *)

Init ==
    /\ heap = HookFragment
    /\ history = <<>>

\* one call JSONSchema().dump(obj) by the application
Translate(obj) ==
    LET r == dump(obj, heap, 1)
    IN /\ heap' = r.heap
       /\ history' = Append(history,
              [obj |-> obj, kind |-> r.kind, data |-> r.data, field |-> r.field,
               seen |-> IF r.kind = "ok" THEN DerefValue(r.data, r.heap) ELSE NoData,
               log |-> r.log])

\* one translation of any schema, in a fresh process
Next == \E obj \in Schemas : Len(history) = 0 /\ Translate(obj)

Spec == Init /\ [][Next]_vars

\* the schemas of an application whose Colour fields share one dict object
SeqSchemas ==
    { Schema("default", << HookField(<<1>>, "Colour", 1, FALSE) >>),
      Schema("default", << [HookField(<<2>>, "Colour", 1, FALSE) EXCEPT
                               !.metadata = [title |-> <<7>>]] >>),
      Schema("default", << Field(<<2>>, "String"),
                           [Field(<<1>>, "Integer") EXCEPT !.required = TRUE] >>),
      Schema("default", << [Field(<<1>>, "Integer") EXCEPT !.required = TRUE],
                           Field(<<2>>, "String") >>),
      Schema("default", << [HookField(<<1>>, "Colour", 1, FALSE) EXCEPT
                               !.metadata = [description |-> <<5>>]],
                           Field(<<2>>, "Function") >>),
      Schema("default", << [HookField(<<1>>, "Colour", 2, TRUE) EXCEPT
                               !.metadata = [title |-> <<7>>]] >>),
      Schema("default", << [HookField(<<1>>, "Colour", 1, FALSE) EXCEPT
                               !.metadata = [title |-> <<8>>],
                               !.validators = <<OneOf>>] >>),
      Schema("default", << NestedField(<<1>>, "Loop", FALSE, FALSE) >>),
      Schema("custom", << NestedField(<<1>>, "Leaf", TRUE, FALSE) >>) }

\* a run of the application: up to MaxCalls translations, one after another
NextSeq == \E obj \in SeqSchemas : Len(history) < MaxCalls /\ Translate(obj)

SpecSeq == Init /\ [][NextSeq]_vars

---------------------------------------------------------------------------
(* Vocabulary of the properties *)

Calls == 1..Len(history)

\* the fields of a schema object
FieldsOf(obj) == { obj.fields[i][2] : i \in 1..Len(obj.fields) }

\* the fragment a finished call shows under a field's name
Fragment(call, field) == DictGet(call.seen.properties, field.name)

SeqToSet(seq) == { seq[i] : i \in 1..Len(seq) }

NoMetadata(field) == field.metadata = EmptyDict

\* the field has no hook and its class is in the class table with a python
\* type that TYPE_MAP has
ResolvesToTable(obj, field) ==
    /\ ~field.hook
    /\ DictHas(Mapping(obj), field.cls)
    /\ DictGet(Mapping(obj), field.cls) \in DOMAIN TYPE_MAP

\* C1: a field that resolves to a native type T of TYPE_MAP and has no
\* validators and no title/description metadata is shown as exactly: title
\* (the attribute if one is set - an empty attribute counts as not set -
\* else the name), the keys of TYPE_MAP[T] with their values, and default
\* if and only if the field has a default
C1_TableFragmentExact ==
    \A c \in Calls :
        LET call == history[c]
        IN call.kind = "ok" =>
           \A f \in FieldsOf(call.obj) :
               (ResolvesToTable(call.obj, f) /\ f.validators = <<>> /\ NoMetadata(f)) =>
               LET T == DictGet(Mapping(call.obj), f.cls)
                   frag == Fragment(call, f)
               IN /\ DOMAIN frag = {"title"} \cup DOMAIN TYPE_MAP[T]
                                   \cup (IF f.default # missing THEN {"default"} ELSE {})
                  /\ frag.title = (IF f.attribute \notin {None, <<>>}
                                   THEN f.attribute ELSE f.name)
                  /\ \A k \in DOMAIN TYPE_MAP[T] : frag[k] = TYPE_MAP[T][k]
                  /\ f.default # missing => frag.default = f.default

C1_Witness ==
    \E c \in Calls :
        /\ history[c].kind = "ok"
        /\ \E f \in FieldsOf(history[c].obj) :
              /\ ResolvesToTable(history[c].obj, f) /\ f.validators = <<>> /\ NoMetadata(f)
              /\ f.cls = "Decimal" /\ f.attribute = <<3>> /\ f.default = <<>>
              /\ Fragment(history[c], f).format = "decimal"

\* C2: the required list of a successful translation holds exactly the
\* names of the required fields, each once, and each is a key of properties
C2_RequiredExact ==
    \A c \in Calls :
        LET call == history[c]
        IN call.kind = "ok" =>
           /\ SeqToSet(call.seen.required) =
                  { f.name : f \in { g \in FieldsOf(call.obj) : g.required } }
           /\ Cardinality(SeqToSet(call.seen.required)) = Len(call.seen.required)
           /\ SeqToSet(call.seen.required) \subseteq SeqToSet(DictKeys(call.seen.properties))

C2_Witness ==
    \E c \in Calls :
        /\ history[c].kind = "ok"
        /\ Len(history[c].obj.fields) = 2
        /\ Len(history[c].seen.required) = 1
        /\ \E f \in FieldsOf(history[c].obj) : f.required /\ Truthy(f.attribute)

\* C3: the keys of properties of a successful translation are the names of
\* the schema's fields, one entry per field, under the name and not the
\* attribute
C3_PropertiesKeys ==
    \A c \in Calls :
        LET call == history[c]
        IN call.kind = "ok" =>
           /\ SeqToSet(DictKeys(call.seen.properties)) = { f.name : f \in FieldsOf(call.obj) }
           /\ Len(call.seen.properties) = Len(call.obj.fields)
           /\ \A i \in 1..Len(call.log) :
                  call.seen.properties[i][1] = call.log[i].field.name

C3_Witness ==
    \E c \in Calls :
        /\ history[c].kind = "ok"
        /\ Len(history[c].seen.properties) = 2
        /\ \E f \in FieldsOf(history[c].obj) : Truthy(f.attribute) /\ f.attribute # f.name

\* a Nested field with many=True and no hook
ManyNested(field) == IsNested(field) /\ field.many /\ ~field.hook

\* the document of the field's nested schema, translated on its own
TranslationOfNested(field) ==
    DerefValue(dump(Registry[field.nested], heap, 1).data, heap)

ArrayWrapper(call, field) ==
    LET frag == Fragment(call, field)
    IN /\ "type" \in DOMAIN frag /\ "items" \in DOMAIN frag
       /\ frag.type = JList(IF field.required THEN <<"array">> ELSE <<"array", "null">>)
       /\ frag.items = TranslationOfNested(field)

Found(field, k) ==
    IF k \in DOMAIN field.metadata THEN field.metadata[k]
    ELSE IF "metadata" \in DOMAIN field.metadata /\ k \in DOMAIN field.metadata["metadata"]
    THEN field.metadata["metadata"][k]
    ELSE None

NonEmpty(v) == v # None /\ Len(v) > 0

\* C5: for every translated field and each of title and description: when
\* the value found (direct keyword first, sub-mapping second) is non-empty,
\* the fragment after the merger has it under the key; otherwise the key is
\* as the earlier steps left it; every other key is as the earlier steps
\* left it
C5_MetadataMerger ==
    \A c \in Calls :
        \A i \in 1..Len(history[c].log) :
            LET e == history[c].log[i]
            IN /\ \A k \in {"title", "description"} :
                      IF NonEmpty(Found(e.field, k))
                      THEN k \in DOMAIN e.final /\ e.final[k] = Found(e.field, k)
                      ELSE /\ (k \in DOMAIN e.final) = (k \in DOMAIN e.validated)
                           /\ k \in DOMAIN e.validated => e.final[k] = e.validated[k]
               /\ DOMAIN e.final \ {"title", "description"}
                      = DOMAIN e.validated \ {"title", "description"}
               /\ \A k \in DOMAIN e.validated \ {"title", "description"} :
                      e.final[k] = e.validated[k]

C5_Witness ==
    \E c \in Calls :
        \E i \in 1..Len(history[c].log) :
            LET e == history[c].log[i]
            IN /\ "title" \in DOMAIN e.field.metadata
               /\ "metadata" \in DOMAIN e.field.metadata
               /\ "title" \in DOMAIN e.field.metadata["metadata"]
               /\ NonEmpty(e.field.metadata["title"])
               /\ NonEmpty(e.field.metadata["metadata"]["title"])
               /\ e.field.metadata["title"] # e.field.metadata["metadata"]["title"]
               /\ e.final.title = e.field.metadata["title"]
               /\ "title" \in DOMAIN e.validated /\ e.validated.title # e.final.title

\* no hook, no class-table entry, not a Nested field
Unsupported(obj, field) ==
    ~field.hook /\ ~DictHas(Mapping(obj), field.cls) /\ ~IsNested(field)

\* the registry classes the Nested fields of a schema name; Entered: those
\* the translation recurses into (no hook, class not in the class table)
Targets(obj) ==
    { f.nested : f \in { g \in FieldsOf(obj) : IsNested(g) } } \cap DOMAIN Registry
Entered(obj) ==
    { f.nested : f \in { g \in FieldsOf(obj) :
                            IsNested(g) /\ ~g.hook /\ ~DictHas(Mapping(obj), g.cls) } }
    \cap DOMAIN Registry

RECURSIVE TargetsClosure(_, _)
TargetsClosure(names, n) ==
    IF n = 0 THEN names
    ELSE TargetsClosure(names \cup UNION { Targets(Registry[x]) : x \in names }, n - 1)
RECURSIVE EnteredClosure(_, _)
EnteredClosure(names, n) ==
    IF n = 0 THEN names
    ELSE EnteredClosure(names \cup UNION { Entered(Registry[x]) : x \in names }, n - 1)

UnsupportedOf(obj) == { f \in FieldsOf(obj) : Unsupported(obj, f) }

\* the unsupported fields of the schema and of every schema nested in it
UnsupportedAnywhere(obj) ==
    UnsupportedOf(obj)
    \cup UNION { UnsupportedOf(Registry[x]) :
                   x \in TargetsClosure(Targets(obj), Cardinality(DOMAIN Registry)) }

\* the unsupported fields of the schema and of every schema the translation
\* recurses into
UnsupportedTraversed(obj) ==
    UnsupportedOf(obj)
    \cup UNION { UnsupportedOf(Registry[x]) :
                   x \in EnteredClosure(Entered(obj), Cardinality(DOMAIN Registry)) }

\* the field the loop of get_properties was at when the call ended early
StoppedAt(call) == sorted(call.obj.fields)[Len(call.log) + 1][2]

C6_NestedWitness ==
    \E c \in Calls :
        LET call == history[c]
        IN /\ call.kind = "ValueError"
           /\ call.field \in UnsupportedOf(Registry["Bad"])
           /\ call.field # StoppedAt(call)

\* the arm of the chain by the order of the claim, and by the order of the code
ClaimedBranch(obj, field) ==
    IF field.hook THEN "hook"
    ELSE IF IsNested(field) THEN "nested"
    ELSE IF DictHas(Mapping(obj), field.cls) THEN "table"
    ELSE "none"
CodeBranch(obj, field) ==
    IF field.hook THEN "hook"
    ELSE IF DictHas(Mapping(obj), field.cls) THEN "table"
    ELSE IF IsNested(field) THEN "nested"
    ELSE "none"

\* what a starting fragment of each arm looks like: the hook's dict as the
\* hook wrote it (title and description aside, which earlier translations
\* may have written into a kept dict), a document or an array wrapper, a
\* type-table fragment
StartOfBranch(obj, e, branch) ==
    /\ e.branch = branch
    /\ branch = "hook" =>
          LET own == HookFragment[e.field.hookObj]
          IN /\ DOMAIN e.start \ {"title", "description"}
                    = DOMAIN own \ {"title", "description"}
             /\ \A k \in DOMAIN own \ {"title", "description"} : e.start[k] = own[k]
    /\ branch = "nested" =>
          IF e.field.many
          THEN DOMAIN e.start = {"type", "items"} /\ "properties" \in DOMAIN e.start.items
          ELSE DOMAIN e.start = {"type", "properties", "required"}
    /\ branch = "table" =>
          /\ "title" \in DOMAIN e.start
          /\ DOMAIN e.start \subseteq {"title", "type", "format", "default"}
          /\ e.start.type = TYPE_MAP[DictGet(Mapping(obj), e.field.cls)].type

DispatchBy(Branch(_, _)) ==
    \A c \in Calls :
        LET call == history[c]
        IN /\ \A i \in 1..Len(call.log) :
                  /\ Branch(call.obj, call.log[i].field) # "none"
                  /\ StartOfBranch(call.obj, call.log[i], Branch(call.obj, call.log[i].field))
           /\ call.kind # "ok" =>
                  /\ Branch(call.obj, StoppedAt(call)) # "hook"
                  /\ Branch(call.obj, StoppedAt(call)) = "none" <=>
                         (call.kind = "ValueError" /\ call.field = StoppedAt(call))
                  /\ Branch(call.obj, StoppedAt(call)) = "table" => call.kind = "KeyError"

C9_TableBeforeNestedWitness ==
    \E c \in Calls :
        LET call == history[c]
        IN /\ call.kind = "ok"
           /\ \E i \in 1..Len(call.log) :
                 /\ IsNested(call.log[i].field) /\ ~call.log[i].field.hook
                 /\ call.log[i].branch = "table"

\* C7: the recursion into a cyclic schema graph is ended by the translator
\* at its maximum depth, with its RecursionLimitExceeded error: no call
\* recurses until the interpreter's stack is used up (RecursionError)
C7_RecursionLimited ==
    \A c \in Calls :
        history[c].kind \in {"ok", "ValueError", "KeyError", "TypeError",
                             "RecursionLimitExceeded"}

\* the same fields, in whatever order they were declared
SameFields(o1, o2) ==
    o1.TYPE_MAPPING = o2.TYPE_MAPPING /\ FieldsOf(o1) = FieldsOf(o2)

Ascending(names) ==
    \A i \in 1..Len(names) : \A j \in 1..Len(names) :
        i < j => LexLess(names[i], names[j])

\* C8: properties and required of a document are in ascending order of
\* field name, and two translations of the same fields (declared in any
\* order, in one schema or translated twice) end alike and show identical
\* documents
C8_Deterministic ==
    /\ \A c \in Calls :
          history[c].kind = "ok" =>
              /\ Ascending(DictKeys(history[c].seen.properties))
              /\ Ascending(history[c].seen.required)
    /\ \A c1 \in Calls : \A c2 \in Calls :
          SameFields(history[c1].obj, history[c2].obj) =>
              /\ history[c1].kind = history[c2].kind
              /\ history[c1].seen = history[c2].seen

\* C10: the dicts the hooks own are as they were written, and every
\* document shown by an earlier translation still reads as it did when
\* its call returned
C10_NothingShared ==
    /\ heap = HookFragment
    /\ \A c \in Calls :
          history[c].kind = "ok" =>
              DerefValue(history[c].data, heap) = history[c].seen

=============================================================================
